---- MODULE Spec2Model ----
(***************************************************************************)
(* Personal finance tracker (src/app.py): the transaction store, the       *)
(* token check in front of every route, the create / read / update /       *)
(* delete handlers, the summary aggregation and the two export renderers.  *)
(*                                                                         *)
(* Encodings                                                               *)
(*   float    [nan, v, e]: v counts 1/800 of a currency unit, so that     *)
(*            the sample amounts and their 2-decimal roundings (multiples  *)
(*            of 1/100) are integers.  e = 0: the value is v/800 itself    *)
(*            (the samples that are multiples of 1/8 are exact as binary   *)
(*            floats, and are added and subtracted exactly).  e # 0: the   *)
(*            double is the |e|-th one above (e > 0) or below (e < 0)      *)
(*            v/800, which no double equals (0.005, 0.015 and their sums). *)
(*   str      a sequence of character codes (ASCII).                       *)
(*   None     Python's None where a str may stand: [none |-> TRUE].        *)
(*   date     [y, m, d]; the sample dates carry no time of day.            *)
(***************************************************************************)
EXTENDS Integers, Sequences, FiniteSets, TLC

\* ---------------------------------------------------------------- bounds
\* Rows the transactions table may receive in one behaviour (ids 1..MaxTx).
MaxTx == 2
\* Consecutive year-months the aggregation inputs are drawn from.
NumMonths == 13
\* An aggregation input holds all of these months but at most AggSlack, or
\* at most AggSlack of them.
AggSlack == 3

\* ------------------------------------------------------ program constants
\* sorted(monthly_data.keys())[-12:]
MonthlyLimit == 12
\* t.description[:30] + '...' if len(t.description) > 30
DescLimit == 30

\* ------------------------------------------------------------------ float
NaN == [nan |-> TRUE, v |-> 0, e |-> 0]
F(v) == [nan |-> FALSE, v |-> v, e |-> 0]
Near(v, e) == [nan |-> FALSE, v |-> v, e |-> e]

\* a + b and a - b of two doubles of which one at least is no multiple of
\* 1/800, as IEEE-754 binary64 (round to nearest, ties to even) gives them:
\* <<a.v, a.e, b.v, b.e>> :> <<v, e>> of the result.
InexactSums ==
    <<4, 1, 4, 1>> :> <<8, 1>> @@
    <<4, 1, 12, -1>> :> <<16, 1>> @@
    <<8, 1, 4, 1>> :> <<12, -1>> @@
    <<8, 1, 12, -1>> :> <<20, 1>> @@
    <<12, -1, 4, 1>> :> <<16, 1>> @@
    <<12, -1, 12, -1>> :> <<24, -1>> @@
    <<16, 1, 4, 1>> :> <<20, 1>> @@
    <<16, 1, 12, -1>> :> <<28, 1>> @@
    <<20, 1, 4, 1>> :> <<24, 1>> @@
    <<20, 1, 12, -1>> :> <<32, 1>> @@
    <<24, -1, 4, 1>> :> <<28, -1>> @@
    <<24, -1, 12, -1>> :> <<36, -1>> @@
    <<28, -1, 4, 1>> :> <<32, -1>> @@
    <<28, -1, 12, -1>> :> <<40, -1>> @@
    <<28, 1, 4, 1>> :> <<32, 1>> @@
    <<28, 1, 12, -1>> :> <<40, 1>> @@
    <<36, -1, 4, 1>> :> <<40, -1>> @@
    <<36, -1, 12, -1>> :> <<48, -1>>

InexactDiffs ==
    <<4, 1, 4, 1>> :> <<0, 0>> @@
    <<4, 1, 8, 1>> :> <<-4, -1>> @@
    <<4, 1, 12, -1>> :> <<-8, 1>> @@
    <<4, 1, 16, 1>> :> <<-12, 1>> @@
    <<4, 1, 20, 1>> :> <<-16, -1>> @@
    <<4, 1, 24, -1>> :> <<-20, 1>> @@
    <<4, 1, 28, -1>> :> <<-24, 2>> @@
    <<4, 1, 28, 1>> :> <<-24, -1>> @@
    <<4, 1, 36, -1>> :> <<-32, -1>> @@
    <<8, 1, 4, 1>> :> <<4, 1>> @@
    <<8, 1, 8, 1>> :> <<0, 0>> @@
    <<8, 1, 12, -1>> :> <<-4, 1>> @@
    <<8, 1, 16, 1>> :> <<-8, -1>> @@
    <<8, 1, 24, -1>> :> <<-16, 1>> @@
    <<12, -1, 4, 1>> :> <<8, -1>> @@
    <<12, -1, 8, 1>> :> <<4, -1>> @@
    <<12, -1, 12, -1>> :> <<0, 0>> @@
    <<12, -1, 16, 1>> :> <<-4, -2>> @@
    <<12, -1, 20, 1>> :> <<-8, -2>> @@
    <<12, -1, 24, -1>> :> <<-12, 1>> @@
    <<12, -1, 28, -1>> :> <<-16, 1>> @@
    <<12, -1, 28, 1>> :> <<-16, -2>> @@
    <<12, -1, 36, -1>> :> <<-24, 1>> @@
    <<16, 1, 4, 1>> :> <<12, -1>> @@
    <<16, 1, 8, 1>> :> <<8, 1>> @@
    <<16, 1, 12, -1>> :> <<4, 2>> @@
    <<16, 1, 16, 1>> :> <<0, 0>> @@
    <<16, 1, 24, -1>> :> <<-8, 1>> @@
    <<20, 1, 4, 1>> :> <<16, 1>> @@
    <<20, 1, 12, -1>> :> <<8, 2>> @@
    <<24, -1, 4, 1>> :> <<20, -1>> @@
    <<24, -1, 8, 1>> :> <<16, -1>> @@
    <<24, -1, 12, -1>> :> <<12, -1>> @@
    <<24, -1, 16, 1>> :> <<8, -1>> @@
    <<24, -1, 24, -1>> :> <<0, 0>> @@
    <<28, -1, 4, 1>> :> <<24, -2>> @@
    <<28, -1, 12, -1>> :> <<16, -1>> @@
    <<28, 1, 4, 1>> :> <<24, 1>> @@
    <<28, 1, 12, -1>> :> <<16, 2>> @@
    <<36, -1, 4, 1>> :> <<32, 1>> @@
    <<36, -1, 12, -1>> :> <<24, -1>>

FAdd(a, b) ==
    IF a.nan \/ b.nan THEN NaN
    ELSE IF a.e = 0 /\ b.e = 0 THEN F(a.v + b.v)
    ELSE IF a = F(0) THEN b
    ELSE IF b = F(0) THEN a
    ELSE LET r == InexactSums[<<a.v, a.e, b.v, b.e>>] IN Near(r[1], r[2])
FSub(a, b) ==
    IF a.nan \/ b.nan THEN NaN
    ELSE IF a.e = 0 /\ b.e = 0 THEN F(a.v - b.v)
    ELSE IF b = F(0) THEN a
    ELSE IF a = F(0) THEN Near(-b.v, -b.e)
    ELSE LET r == InexactDiffs[<<a.v, a.e, b.v, b.e>>] IN Near(r[1], r[2])
\* Python's a <= 0 and a > 0: every comparison with nan is False.
FLeqZero(a) == ~a.nan /\ (a.v < 0 \/ (a.v = 0 /\ a.e <= 0))
FGtZero(a) == ~a.nan /\ (a.v > 0 \/ (a.v = 0 /\ a.e > 0))

\* round(x, 2) and the .2f format: to the nearest 1/100 (8 units), a tie
\* (exact for these binary fractions) going to the even hundredth.
RoundHalfEven(x) ==
    LET q == x \div 8
        r == x % 8
    IN  IF r < 4 THEN 8 * q
        ELSE IF r > 4 THEN 8 * (q + 1)
        ELSE IF q % 2 = 0 THEN 8 * q ELSE 8 * (q + 1)
\* The same for a double beside v/800: halfway in v is no tie, the side
\* the double lies on decides.
RoundBeside(v, e) ==
    LET q == v \div 8
        r == v % 8
    IN  IF r < 4 \/ (r = 4 /\ e < 0) THEN 8 * q ELSE 8 * (q + 1)

Round2(a) ==
    IF a.nan THEN NaN
    ELSE IF a.e = 0 THEN F(RoundHalfEven(a.v))
    ELSE F(RoundBeside(a.v, a.e))

\* float(data['amount']) on the sample request values; ok = FALSE is the
\* ValueError of a string that is no number.
RawAmounts == {"0.125", "0.25", "0.375", "0.005", "0.015", "0", "-0.125", "nan", "abc"}
ParseFloat(raw) ==
    CASE raw = "0.125"  -> [ok |-> TRUE, val |-> F(100)]
      [] raw = "0.25"   -> [ok |-> TRUE, val |-> F(200)]
      [] raw = "0.375"  -> [ok |-> TRUE, val |-> F(300)]
      [] raw = "0.005"  -> [ok |-> TRUE, val |-> Near(4, 1)]
      [] raw = "0.015"  -> [ok |-> TRUE, val |-> Near(12, -1)]
      [] raw = "0"      -> [ok |-> TRUE, val |-> F(0)]
      [] raw = "-0.125" -> [ok |-> TRUE, val |-> F(-100)]
      [] raw = "nan"    -> [ok |-> TRUE, val |-> NaN]
      [] OTHER          -> [ok |-> FALSE, val |-> NaN]

\* ------------------------------------------------------------------- str
None == [none |-> TRUE, s |-> <<>>]
Str(s) == [none |-> FALSE, s |-> s]
Letters(n) == [i \in 1..n |-> 97 + ((i - 1) % 26)]
Ellipsis == <<46, 46, 46>>
Dash == 45
Digit(d) == 48 + d

\* s < t for Python strings: code point by code point, a proper prefix first.
RECURSIVE StrLess(_, _)
StrLess(s, t) ==
    IF t = <<>> THEN FALSE
    ELSE IF s = <<>> THEN TRUE
    ELSE IF Head(s) # Head(t) THEN Head(s) < Head(t)
    ELSE StrLess(Tail(s), Tail(t))

\* ------------------------------------------------------------------ date
IsLeap(y) == (y % 4 = 0 /\ y % 100 # 0) \/ y % 400 = 0
DaysInMonth(y, m) ==
    IF m = 2 THEN (IF IsLeap(y) THEN 29 ELSE 28)
    ELSE IF m \in {4, 6, 9, 11} THEN 30 ELSE 31

\* datetime.fromisoformat(...) on a "YYYY-MM-DD" string: a ValueError when
\* the fields name no calendar date.
ParseDate(raw) ==
    IF /\ raw.y \in 1..9999
       /\ raw.m \in 1..12
       /\ raw.d \in 1..DaysInMonth(raw.y, raw.m)
    THEN [ok |-> TRUE, val |-> raw]
    ELSE [ok |-> FALSE, val |-> raw]

\* Chronological order of two dates.
DateLess(a, b) ==
    \/ a.y < b.y
    \/ a.y = b.y /\ a.m < b.m
    \/ a.y = b.y /\ a.m = b.m /\ a.d < b.d

Digits2(n) == <<Digit((n \div 10) % 10), Digit(n % 10)>>
Digits4(n) == <<Digit((n \div 1000) % 10), Digit((n \div 100) % 10)>> \o Digits2(n)
RECURSIVE DigitsMin(_)
DigitsMin(n) == IF n < 10 THEN <<Digit(n)>> ELSE DigitsMin(n \div 10) \o <<Digit(n % 10)>>

\* %Y of strftime.  The C library decides the width: glibc prints the year
\* without padding ("999"), other platforms zero-pad it to four digits.
FormatYear(pad, y) == IF pad THEN Digits4(y) ELSE DigitsMin(y)

\* t.date.strftime('%Y-%m')
MonthKeyOf(pad, date) == FormatYear(pad, date.y) \o <<Dash>> \o Digits2(date.m)
\* t.date.strftime('%Y-%m-%d')
DayKeyOf(pad, date) == MonthKeyOf(pad, date) \o <<Dash>> \o Digits2(date.d)

\* ------------------------------------------------------------- sequences
Range(f) == {f[i] : i \in DOMAIN f}
\* seq[-n:]
LastN(seq, n) == IF Len(seq) <= n THEN seq ELSE SubSeq(seq, Len(seq) - n + 1, Len(seq))
\* seq[:n]
Prefix(seq, n) == IF Len(seq) <= n THEN seq ELSE SubSeq(seq, 1, n)

\* sorted(keys) for a set of strings
RECURSIVE SortedStrs(_)
SortedStrs(S) ==
    IF S = {} THEN <<>>
    ELSE LET least == CHOOSE k \in S : \A o \in S \ {k} : StrLess(k, o)
         IN  <<least>> \o SortedStrs(S \ {least})

\* dict.get(k, default) and d[k] = v on a dict held as a function
DictGet(d, k, default) == IF k \in DOMAIN d THEN d[k] ELSE default
DictSet(d, k, v) == [x \in (DOMAIN d) \cup {k} |-> IF x = k THEN v ELSE d[x]]
EmptyDict == [x \in {} |-> 0]

\* ------------------------------------------------------------- aggregator
\* sum(t.amount for t in transactions if t.type == kind), left to right
RECURSIVE TotalFold(_, _, _)
TotalFold(rows, kind, acc) ==
    IF rows = <<>> THEN acc
    ELSE TotalFold(Tail(rows), kind,
                   IF Head(rows).type = kind THEN FAdd(acc, Head(rows).amount) ELSE acc)
TotalOf(rows, kind) == TotalFold(rows, kind, F(0))

\* balance = total_income - total_expense
Balance(rows) == FSub(TotalOf(rows, "income"), TotalOf(rows, "expense"))

\* for t in transactions: if t.type == 'expense': category_spending[...] += ...
RECURSIVE CategoryFold(_, _)
CategoryFold(rows, acc) ==
    IF rows = <<>> THEN acc
    ELSE LET t == Head(rows)
             next == IF t.type = "expense"
                     THEN DictSet(acc, t.category,
                                  FAdd(DictGet(acc, t.category, F(0)), t.amount))
                     ELSE acc
         IN  CategoryFold(Tail(rows), next)

RECURSIVE CategoryFoldAllKinds(_, _)
CategoryFoldAllKinds(rows, acc) ==
    IF rows = <<>> THEN acc
    ELSE LET t == Head(rows)
         IN  CategoryFoldAllKinds(Tail(rows),
                 DictSet(acc, t.category, FAdd(DictGet(acc, t.category, F(0)), t.amount)))

CategorySpendingAllKinds(rows) == CategoryFoldAllKinds(rows, EmptyDict)
CategorySpending(rows) == CategoryFold(rows, EmptyDict)

\* for t in transactions: month_key = ...; monthly_data[month_key][...] += t.amount
RECURSIVE MonthlyFold(_, _, _)
MonthlyFold(pad, rows, acc) ==
    IF rows = <<>> THEN acc
    ELSE LET t == Head(rows)
             key == MonthKeyOf(pad, t.date)
             cur == DictGet(acc, key, [income |-> F(0), expense |-> F(0)])
             upd == IF t.type = "income"
                    THEN [cur EXCEPT !.income = FAdd(cur.income, t.amount)]
                    ELSE [cur EXCEPT !.expense = FAdd(cur.expense, t.amount)]
         IN  MonthlyFold(pad, Tail(rows), DictSet(acc, key, upd))

RECURSIVE MonthlyFoldOneBucket(_, _, _)
MonthlyFoldOneBucket(pad, rows, acc) ==
    IF rows = <<>> THEN acc
    ELSE LET t == Head(rows)
             key == MonthKeyOf(pad, t.date)
             cur == DictGet(acc, key, [income |-> F(0), expense |-> F(0)])
             upd == [cur EXCEPT !.income = FAdd(cur.income, t.amount)]
         IN  MonthlyFoldOneBucket(pad, Tail(rows), DictSet(acc, key, upd))

MonthlyDataOneBucket(pad, rows) == MonthlyFoldOneBucket(pad, rows, EmptyDict)
MonthlyData(pad, rows) == MonthlyFold(pad, rows, EmptyDict)

\* sorted(monthly_data.keys())[-12:]
SortedMonths(keys) == LastN(SortedStrs(keys), MonthlyLimit)

\* monthly_summary = [{'month': ..., 'income': ..., 'expense': ...} for month in sorted_months]
MonthlySummary(pad, rows) ==
    LET data == MonthlyData(pad, rows)
        months == SortedMonths(DOMAIN data)
    IN  [i \in 1..Len(months) |->
            [month |-> months[i],
             income |-> data[months[i]].income,
             expense |-> data[months[i]].expense]]

\* The JSON body of GET /summary.
ReportRoundedParts(pad, rows) ==
    [total_income |-> Round2(TotalOf(rows, "income")),
     total_expense |-> Round2(TotalOf(rows, "expense")),
     balance |-> FSub(Round2(TotalOf(rows, "income")), Round2(TotalOf(rows, "expense"))),
     category_spending |-> CategorySpending(rows),
     monthly_summary |-> MonthlySummary(pad, rows),
     transaction_count |-> Len(rows)]
SummaryReport(pad, rows) ==
    [total_income |-> Round2(TotalOf(rows, "income")),
     total_expense |-> Round2(TotalOf(rows, "expense")),
     balance |-> Round2(Balance(rows)),
     category_spending |-> CategorySpending(rows),
     monthly_summary |-> MonthlySummary(pad, rows),
     transaction_count |-> Len(rows)]

\* -------------------------------------------------------------- renderers
\* str.capitalize() on the two stored kinds
Capitalize(kind) == IF kind = "income" THEN "Income" ELSE "Expense"

\* f"${x:,.2f}": the amount as printed, two decimals
Currency(a) == [symbol |-> "$", shown |-> Round2(a)]

\* The workbook of GET /export/excel: sheet Transactions from the list of
\* dicts, sheet Summary from summary_data.
ExcelDocument(pad, rows) ==
    [transactions |->
        [i \in 1..Len(rows) |->
            [Date |-> DayKeyOf(pad, rows[i].date),
             Type |-> Capitalize(rows[i].type),
             Category |-> rows[i].category,
             Amount |-> rows[i].amount,
             Description |-> rows[i].description]],
     summary |->
        [Metric |-> <<"Total Income", "Total Expense", "Balance">>,
         Value |-> <<TotalOf(rows, "income"),
                     TotalOf(rows, "expense"),
                     FSub(TotalOf(rows, "income"), TotalOf(rows, "expense"))>>]]

\* t.description[:30] + '...' if len(t.description) > 30 else t.description
\* (len(None) raises TypeError: ok = FALSE)
DescriptionCell(desc) ==
    IF desc.none THEN [ok |-> FALSE, cell |-> <<>>]
    ELSE IF Len(desc.s) > DescLimit
         THEN [ok |-> TRUE, cell |-> Prefix(desc.s, DescLimit) \o Ellipsis]
         ELSE [ok |-> TRUE, cell |-> desc.s]

\* The report of GET /export/pdf: the summary paragraph and the table body
\* (the header row is data[0]; rows holds data[1:]).  ok = FALSE when
\* building a row raised.
PdfDocument(pad, rows) ==
    [ok |-> \A i \in 1..Len(rows) : DescriptionCell(rows[i].description).ok,
     summary |->
        [total_income |-> Currency(TotalOf(rows, "income")),
         total_expense |-> Currency(TotalOf(rows, "expense")),
         balance |-> Currency(Balance(rows))],
     rows |->
        [i \in 1..Len(rows) |->
            [Date |-> DayKeyOf(pad, rows[i].date),
             Type |-> Capitalize(rows[i].type),
             Category |-> rows[i].category,
             Amount |-> Currency(rows[i].amount),
             Description |-> DescriptionCell(rows[i].description).cell]]]

\* ------------------------------------------------------------------ tokens
\* A request's Authorization header and token cookie.  A token string is
\* absent (NoToken) or [bearer, sig, exp, uid]: whether it starts with
\* "Bearer ", whether its HS256 signature verifies under SECRET_KEY, whether
\* its exp claim has passed, and the user_id claim.
NoToken == [absent |-> TRUE, bearer |-> FALSE, sig |-> FALSE, expired |-> FALSE, uid |-> 0]
Token(bearer, sig, expired, uid) ==
    [absent |-> FALSE, bearer |-> bearer, sig |-> sig, expired |-> expired, uid |-> uid]

\* token = request.headers.get('Authorization'); if not token: token = cookie
PresentedToken(auth) == IF auth.header.absent THEN auth.cookie ELSE auth.header

\* token_required: the user the handler is called with, or the 401 returned.
\* jwt.decode verifies the signature before the expiry.
TokenRequiredNoUserCheck(auth, registered) ==
    LET token == PresentedToken(auth)
    IN  IF token.absent THEN [ok |-> FALSE, status |-> 401, error |-> "Token is missing", user |-> 0]
        ELSE IF ~token.sig THEN [ok |-> FALSE, status |-> 401, error |-> "Invalid token", user |-> 0]
        ELSE IF token.expired THEN [ok |-> FALSE, status |-> 401, error |-> "Token has expired", user |-> 0]
        ELSE [ok |-> TRUE, status |-> 200, error |-> "", user |-> token.uid]
TokenRequired(auth, registered) ==
    LET token == PresentedToken(auth)
    IN  IF token.absent THEN [ok |-> FALSE, status |-> 401, error |-> "Token is missing", user |-> 0]
        ELSE IF ~token.sig THEN [ok |-> FALSE, status |-> 401, error |-> "Invalid token", user |-> 0]
        ELSE IF token.expired THEN [ok |-> FALSE, status |-> 401, error |-> "Token has expired", user |-> 0]
        ELSE IF token.uid \notin registered
             THEN [ok |-> FALSE, status |-> 401, error |-> "User not found", user |-> 0]
        ELSE [ok |-> TRUE, status |-> 200, error |-> "", user |-> token.uid]

\* ------------------------------------------------------------------ state
VARIABLES
    db_uri,    \* app.config['SQLALCHEMY_DATABASE_URI']: the engine behind db
    year_pad,  \* whether the platform's strftime zero-pads %Y
    users,     \* table users: the e-mail of user id i at position i
    txs,       \* table transactions: a set of rows
    next_id,   \* the next primary key of table transactions
    pend,      \* the read request that has run its query and not yet answered
    resp       \* the response on its way to the client

vars == <<db_uri, year_pad, users, txs, next_id, pend, resp>>

D(y, m, d) == [y |-> y, m |-> m, d |-> d]

\* ---------------------------------------------------------- request samples
Anonymous == [header |-> NoToken, cookie |-> NoToken]
AuthSamples ==
    {[header |-> Token(TRUE, TRUE, FALSE, u), cookie |-> NoToken] : u \in {1, 2}}
    \cup {Anonymous,
          [header |-> NoToken, cookie |-> Token(FALSE, TRUE, FALSE, 1)],
          [header |-> Token(TRUE, FALSE, FALSE, 1), cookie |-> Token(FALSE, TRUE, FALSE, 1)],
          [header |-> Token(TRUE, TRUE, TRUE, 1), cookie |-> NoToken]}

RegisterSamples ==
    {[name |-> "Ann", email |-> "ann@example.com", password |-> "pw"],
     [name |-> "Bob", email |-> "bob@example.com", password |-> "pw"],
     [name |-> "Eve", email |-> "eve@example.com"]}

CreateSamples ==
    {[type |-> "income", category |-> "Salary", amount |-> "0.375",
      description |-> Str(Letters(DescLimit)), date |-> D(2024, 1, 15)],
     [type |-> "expense", category |-> "Food", amount |-> "0.125",
      description |-> Str(Letters(DescLimit + 1)), date |-> D(2024, 1, 20)],
     [type |-> "expense", category |-> "Rent", amount |-> "0.125",
      description |-> None, date |-> D(2024, 2, 1)],
     [type |-> "expense", category |-> "Food", amount |-> "nan", date |-> D(2024, 2, 1)],
     [type |-> "transfer", category |-> "Food", amount |-> "0.125", date |-> D(2024, 2, 1)],
     [type |-> "expense", category |-> "Food", amount |-> "0", date |-> D(2024, 2, 1)],
     [type |-> "income", category |-> "Salary", amount |-> "-0.125", date |-> D(2024, 2, 1)],
     [type |-> "income", category |-> "Salary", amount |-> "abc", date |-> D(2024, 2, 1)],
     [type |-> "income", category |-> "Salary", amount |-> "0.125", date |-> D(2024, 2, 30)],
     [type |-> "income", category |-> "Salary", amount |-> "0.125"]}

UpdateSamples ==
    {[type |-> "income", category |-> "Salary", amount |-> "0.375",
      description |-> Str(Letters(DescLimit)), date |-> D(2024, 1, 15)],
     [type |-> "income", amount |-> "0"],
     [type |-> "transfer"],
     [amount |-> "nan", category |-> "Rent"],
     [category |-> "Rent", amount |-> "abc"],
     [description |-> Str(<<>>), date |-> D(2024, 13, 1)]}

\* The requests of the overlapping-request specification: one user's.
ConcAuthSamples == {[header |-> Token(TRUE, TRUE, FALSE, 1), cookie |-> NoToken], Anonymous}
ConcRegisterSamples == {[name |-> "Ann", email |-> "ann@example.com", password |-> "pw"]}
ConcCreateSamples ==
    {[type |-> "income", category |-> "Salary", amount |-> "0.375",
      description |-> Str(Letters(DescLimit)), date |-> D(2024, 1, 15)],
     [type |-> "expense", category |-> "Food", amount |-> "0.125",
      description |-> Str(Letters(DescLimit + 1)), date |-> D(2024, 1, 20)]}
ConcUpdateSamples ==
    {[type |-> "income", category |-> "Salary", amount |-> "0.375",
      description |-> Str(Letters(DescLimit)), date |-> D(2024, 1, 15)],
     [type |-> "income", amount |-> "0"]}

\* ------------------------------------------------------------------ store
RegisteredIds == DOMAIN users

\* The engine stores a NaN float: SQLite binds NaN as NULL, which the
\* NOT NULL column amount refuses (IntegrityError); PostgreSQL stores it.
StoresNaN(uri) == uri = "postgresql"

\* Transaction.query.filter_by(user_id=...)
RowsOf(user) == {t \in txs : t.user_id = user}

\* .filter_by(id=transaction_id, user_id=current_user.id).first()
FindAnyOwner(id, user) == {t \in txs : t.id = id}
Find(id, user) == {t \in txs : t.id = id /\ t.user_id = user}

\* .all() without ORDER BY: the engine's order; drawn as primary-key order,
\* ascending or descending.
RECURSIVE RowsById(_, _)
RowsById(S, asc) ==
    IF S = {} THEN <<>>
    ELSE LET first == CHOOSE t \in S : \A o \in S \ {t} :
                          IF asc THEN t.id < o.id ELSE t.id > o.id
         IN  <<first>> \o RowsById(S \ {first}, asc)

RECURSIVE RowsByDateAsc(_, _)
RowsByDateAsc(S, asc) ==
    IF S = {} THEN <<>>
    ELSE LET first == CHOOSE t \in S : \A o \in S \ {t} :
                          \/ DateLess(t.date, o.date)
                          \/ /\ o.date = t.date
                             /\ IF asc THEN t.id < o.id ELSE t.id > o.id
         IN  <<first>> \o RowsByDateAsc(S \ {first}, asc)

\* .order_by(Transaction.date.desc()).all(): rows of equal date come in the
\* engine's order, drawn as above.
RECURSIVE RowsByDateDesc(_, _)
RowsByDateDesc(S, asc) ==
    IF S = {} THEN <<>>
    ELSE LET first == CHOOSE t \in S : \A o \in S \ {t} :
                          \/ DateLess(o.date, t.date)
                          \/ /\ o.date = t.date
                             /\ IF asc THEN t.id < o.id ELSE t.id > o.id
         IN  <<first>> \o RowsByDateDesc(S \ {first}, asc)

\* ------------------------------------------------------------- responses
NoReq == [op |-> "none", auth |-> Anonymous, user |-> 0, rows |-> <<>>]
NoResp == [op |-> "none", auth |-> Anonymous, user |-> 0, target |-> 0,
           status |-> 0, body |-> <<>>, input |-> <<>>]
Response(op, auth, user, target, status, body, input) ==
    [op |-> op, auth |-> auth, user |-> user, target |-> target,
     status |-> status, body |-> body, input |-> input]

\* ------------------------------------------------------- handler bodies
Kinds == {"income", "expense"}
RequiredFields == {"type", "category", "amount", "date"}

\* create_transaction up to the Transaction(...) it builds: the 400 it
\* returns, or the row to add (its id is given at the commit).
NewTransaction(user, data) ==
    IF ~(RequiredFields \subseteq DOMAIN data)
    THEN [status |-> 400, error |-> "Missing required fields"]
    ELSE IF data.type \notin Kinds
    THEN [status |-> 400, error |-> "Type must be income or expense"]
    ELSE IF ~ParseFloat(data.amount).ok
    THEN [status |-> 400, error |-> "Invalid amount"]
    ELSE IF FLeqZero(ParseFloat(data.amount).val)
    THEN [status |-> 400, error |-> "Amount must be positive"]
    ELSE IF ~ParseDate(data.date).ok
    THEN [status |-> 400, error |-> "Invalid date format"]
    ELSE [status |-> 201, error |-> "",
          row |-> [id |-> 0, user_id |-> user, type |-> data.type,
                   category |-> data.category,
                   amount |-> ParseFloat(data.amount).val,
                   description |-> IF "description" \in DOMAIN data
                                   THEN data.description ELSE Str(<<>>),
                   date |-> ParseDate(data.date).val]]

\* update_transaction's field updates, in the handler's order.  Each acts on
\* the loaded object unless an earlier one has returned (error # "").
SetType(st, data) ==
    IF st.error # "" \/ "type" \notin DOMAIN data THEN st
    ELSE IF data.type \notin Kinds
    THEN [st EXCEPT !.error = "Type must be income or expense"]
    ELSE [st EXCEPT !.obj.type = data.type]
SetCategory(st, data) ==
    IF st.error # "" \/ "category" \notin DOMAIN data THEN st
    ELSE [st EXCEPT !.obj.category = data.category]
SetAmount(st, data) ==
    IF st.error # "" \/ "amount" \notin DOMAIN data THEN st
    ELSE IF ~ParseFloat(data.amount).ok
    THEN [st EXCEPT !.error = "Invalid amount"]
    ELSE IF FLeqZero(ParseFloat(data.amount).val)
    THEN [st EXCEPT !.error = "Amount must be positive"]
    ELSE [st EXCEPT !.obj.amount = ParseFloat(data.amount).val]
SetDescription(st, data) ==
    IF st.error # "" \/ "description" \notin DOMAIN data THEN st
    ELSE [st EXCEPT !.obj.description = data.description]
SetDate(st, data) ==
    IF st.error # "" \/ "date" \notin DOMAIN data THEN st
    ELSE IF ~ParseDate(data.date).ok
    THEN [st EXCEPT !.error = "Invalid date format"]
    ELSE [st EXCEPT !.obj.date = ParseDate(data.date).val]

\* The loaded object and the error (if any) when update_transaction reaches
\* its commit or returns early.
UpdatedObject(t, data) ==
    SetDate(SetDescription(SetAmount(SetCategory(SetType(
        [obj |-> t, error |-> ""], data), data), data), data), data)

\* db.session.commit() of one added or changed row: the engine's verdict.
CommitAccepts(row) == ~row.amount.nan \/ StoresNaN(db_uri)

\* The row the table holds once update_transaction's request is over: the
\* loaded object's new state if the handler reached its commit and the
\* engine took it; else the row as it was, the changes made to the loaded
\* object going with the request's session.
PersistedAsChanged(old, upd) == IF CommitAccepts(upd.obj) THEN upd.obj ELSE old
Persisted(old, upd) ==
    IF upd.error = "" /\ CommitAccepts(upd.obj) THEN upd.obj ELSE old

\* ---------------------------------------------------------------- actions
\* Each handler takes its request from the sample sets it is given.

\* The client takes the response.
Deliver ==
    /\ resp.op # "none"
    /\ resp' = NoResp
    /\ UNCHANGED <<db_uri, year_pad, users, txs, next_id, pend>>

\* POST /auth/register (the password hash and the name are not kept here)
RegisterFrom(datas) ==
    \E data \in datas :
        /\ resp.op = "none"
        /\ IF ~({"name", "email", "password"} \subseteq DOMAIN data)
           THEN /\ resp' = Response("register", Anonymous, 0, 0, 400, "Missing required fields", <<>>)
                /\ UNCHANGED users
           ELSE IF data.email \in Range(users)
           THEN /\ resp' = Response("register", Anonymous, 0, 0, 400, "Email already registered", <<>>)
                /\ UNCHANGED users
           ELSE /\ users' = Append(users, data.email)
                /\ resp' = Response("register", Anonymous, Len(users) + 1, 0, 201, "User registered successfully", <<>>)
        /\ UNCHANGED <<db_uri, year_pad, txs, next_id, pend>>

\* POST /transactions
CreateFrom(auths, datas) ==
    \E auth \in auths, data \in datas :
        LET who == TokenRequired(auth, RegisteredIds)
            new == NewTransaction(who.user, data)
        IN  /\ resp.op = "none"
            /\ IF ~who.ok
               THEN /\ resp' = Response("create", auth, 0, 0, who.status, who.error, <<>>)
                    /\ UNCHANGED <<txs, next_id>>
               ELSE IF new.status # 201
               THEN /\ resp' = Response("create", auth, who.user, 0, new.status, new.error, <<>>)
                    /\ UNCHANGED <<txs, next_id>>
               ELSE IF ~CommitAccepts(new.row)
               THEN /\ resp' = Response("create", auth, who.user, 0, 500, "IntegrityError", <<>>)
                    /\ UNCHANGED <<txs, next_id>>
               ELSE /\ next_id <= MaxTx
                    /\ txs' = txs \cup {[new.row EXCEPT !.id = next_id]}
                    /\ next_id' = next_id + 1
                    /\ resp' = Response("create", auth, who.user, next_id, 201,
                                        [new.row EXCEPT !.id = next_id], <<>>)
            /\ UNCHANGED <<db_uri, year_pad, users, pend>>

\* GET /transactions
ListFrom(auths) ==
    \E auth \in auths, asc \in BOOLEAN :
        LET who == TokenRequired(auth, RegisteredIds)
        IN  /\ resp.op = "none"
            /\ IF ~who.ok
               THEN resp' = Response("list", auth, 0, 0, who.status, who.error, <<>>)
               ELSE resp' = Response("list", auth, who.user, 0, 200,
                                     RowsByDateDesc(RowsOf(who.user), asc), <<>>)
            /\ UNCHANGED <<db_uri, year_pad, users, txs, next_id, pend>>

\* GET /transactions/<id>
GetFrom(auths) ==
    \E auth \in auths, id \in 1..MaxTx :
        LET who == TokenRequired(auth, RegisteredIds)
            found == Find(id, who.user)
        IN  /\ resp.op = "none"
            /\ IF ~who.ok
               THEN resp' = Response("get", auth, 0, id, who.status, who.error, <<>>)
               ELSE IF found = {}
               THEN resp' = Response("get", auth, who.user, id, 404, "Transaction not found", <<>>)
               ELSE resp' = Response("get", auth, who.user, id, 200, CHOOSE t \in found : TRUE, <<>>)
            /\ UNCHANGED <<db_uri, year_pad, users, txs, next_id, pend>>

\* PUT /transactions/<id>.  A return before the commit leaves the changed
\* object in the request's session, which the request's end discards.
UpdateFrom(auths, datas) ==
    \E auth \in auths, id \in 1..MaxTx, data \in datas :
        LET who == TokenRequired(auth, RegisteredIds)
            found == Find(id, who.user)
            old == CHOOSE t \in found : TRUE
            upd == UpdatedObject(old, data)
        IN  /\ resp.op = "none"
            /\ IF ~who.ok
               THEN /\ resp' = Response("update", auth, 0, id, who.status, who.error, <<>>)
                    /\ UNCHANGED txs
               ELSE IF found = {}
               THEN /\ resp' = Response("update", auth, who.user, id, 404, "Transaction not found", <<data>>)
                    /\ UNCHANGED txs
               ELSE IF upd.error # ""
               THEN /\ resp' = Response("update", auth, who.user, id, 400, upd.error, <<data>>)
                    /\ txs' = (txs \ {old}) \cup {Persisted(old, upd)}
               ELSE IF ~CommitAccepts(upd.obj)
               THEN /\ resp' = Response("update", auth, who.user, id, 500, "IntegrityError", <<data>>)
                    /\ txs' = (txs \ {old}) \cup {Persisted(old, upd)}
               ELSE /\ txs' = (txs \ {old}) \cup {Persisted(old, upd)}
                    /\ resp' = Response("update", auth, who.user, id, 200, upd.obj, <<data>>)
            /\ UNCHANGED <<db_uri, year_pad, users, next_id, pend>>

\* DELETE /transactions/<id>
DeleteFrom(auths) ==
    \E auth \in auths, id \in 1..MaxTx :
        LET who == TokenRequired(auth, RegisteredIds)
            found == Find(id, who.user)
        IN  /\ resp.op = "none"
            /\ IF ~who.ok
               THEN /\ resp' = Response("delete", auth, 0, id, who.status, who.error, <<>>)
                    /\ UNCHANGED txs
               ELSE IF found = {}
               THEN /\ resp' = Response("delete", auth, who.user, id, 404, "Transaction not found", <<>>)
                    /\ UNCHANGED txs
               ELSE /\ txs' = txs \ found
                    /\ resp' = Response("delete", auth, who.user, id, 200, "Transaction deleted successfully", <<>>)
            /\ UNCHANGED <<db_uri, year_pad, users, next_id, pend>>

\* The list `transactions` a read handler holds after its one query.
RetrievedAgain == RowsByDateDesc(RowsOf(pend.user), TRUE)
Retrieved == pend.rows

\* A read handler (op: summary, export_excel, export_pdf) up to and
\* including its query; byDate: the query has order_by(date.desc()).
ReadBegin(op, byDate, auths) ==
    \E auth \in auths, asc \in BOOLEAN :
        LET who == TokenRequired(auth, RegisteredIds)
        IN  /\ resp.op = "none"
            /\ pend.op = "none"
            /\ IF ~who.ok
               THEN /\ resp' = Response(op, auth, 0, 0, who.status, who.error, <<>>)
                    /\ UNCHANGED pend
               ELSE /\ pend' = [op |-> op, auth |-> auth, user |-> who.user,
                                rows |-> IF byDate
                                         THEN RowsByDateDesc(RowsOf(who.user), asc)
                                         ELSE RowsById(RowsOf(who.user), asc)]
                    /\ UNCHANGED resp
            /\ UNCHANGED <<db_uri, year_pad, users, txs, next_id>>

\* GET /summary: Transaction.query.filter_by(user_id=...).all()
SummaryBeginFrom(auths) == ReadBegin("summary", FALSE, auths)
\* GET /export/excel: ... .order_by(Transaction.date.desc()).all()
ExportExcelBeginFrom(auths) == ReadBegin("export_excel", TRUE, auths)
\* GET /export/pdf: ... .order_by(Transaction.date.desc()).all()
ExportPdfBeginFrom(auths) == ReadBegin("export_pdf", TRUE, auths)

\* GET /summary, from the totals to the JSON response
SummaryFinishConsuming ==
    /\ resp.op = "none"
    /\ pend.op = "summary"
    /\ resp' = Response("summary", pend.auth, pend.user, 0, 200,
                        SummaryReport(year_pad, Retrieved), pend.rows)
    /\ pend' = NoReq
    /\ txs' = txs \ Range(pend.rows)
    /\ UNCHANGED <<db_uri, year_pad, users, next_id>>
SummaryFinish ==
    /\ resp.op = "none"
    /\ pend.op = "summary"
    /\ resp' = Response("summary", pend.auth, pend.user, 0, 200,
                        SummaryReport(year_pad, Retrieved), pend.rows)
    /\ pend' = NoReq
    /\ UNCHANGED <<db_uri, year_pad, users, txs, next_id>>

\* GET /export/excel, from the DataFrame to send_file
ExportExcelFinish ==
    /\ resp.op = "none"
    /\ pend.op = "export_excel"
    /\ resp' = Response("export_excel", pend.auth, pend.user, 0, 200,
                        ExcelDocument(year_pad, Retrieved), pend.rows)
    /\ pend' = NoReq
    /\ UNCHANGED <<db_uri, year_pad, users, txs, next_id>>

\* GET /export/pdf, from the summary paragraph to send_file; an exception
\* while the table rows are built is the framework's 500.
ExportPdfFinish ==
    /\ resp.op = "none"
    /\ pend.op = "export_pdf"
    /\ LET doc == PdfDocument(year_pad, Retrieved)
       IN  IF doc.ok
           THEN resp' = Response("export_pdf", pend.auth, pend.user, 0, 200, doc, pend.rows)
           ELSE resp' = Response("export_pdf", pend.auth, pend.user, 0, 500, "TypeError", pend.rows)
    /\ pend' = NoReq
    /\ UNCHANGED <<db_uri, year_pad, users, txs, next_id>>

\* ---------------------------------------------------------- specifications
\* The application after db.create_all(): empty tables, on either engine,
\* under glibc.
Init ==
    /\ db_uri \in {"sqlite", "postgresql"}
    /\ year_pad = FALSE
    /\ users = <<>>
    /\ txs = {}
    /\ next_id = 1
    /\ pend = NoReq
    /\ resp = NoResp

\* Spec: requests served one at a time (a handler starts when no read
\* request is between its query and its answer), over the full samples.
Idle == pend.op = "none"
Register == RegisterFrom(RegisterSamples)
CreateTransaction == Idle /\ CreateFrom(AuthSamples, CreateSamples)
GetTransactions == Idle /\ ListFrom(AuthSamples)
GetTransaction == Idle /\ GetFrom(AuthSamples)
UpdateTransaction == Idle /\ UpdateFrom(AuthSamples, UpdateSamples)
DeleteTransaction == Idle /\ DeleteFrom(AuthSamples)
SummaryBegin == SummaryBeginFrom(AuthSamples)
ExportExcelBegin == ExportExcelBeginFrom(AuthSamples)
ExportPdfBegin == ExportPdfBeginFrom(AuthSamples)

Next ==
    \/ Deliver
    \/ Register
    \/ CreateTransaction
    \/ GetTransactions
    \/ GetTransaction
    \/ UpdateTransaction
    \/ DeleteTransaction
    \/ SummaryBegin
    \/ SummaryFinish
    \/ ExportExcelBegin
    \/ ExportExcelFinish
    \/ ExportPdfBegin
    \/ ExportPdfFinish

Spec == Init /\ [][Next]_vars

\* SpecConc: requests overlap (the server runs handlers in threads): writes
\* commit while a read request is between its query and its answer.
NextConc ==
    \/ Deliver
    \/ RegisterFrom(ConcRegisterSamples)
    \/ CreateFrom(ConcAuthSamples, ConcCreateSamples)
    \/ UpdateFrom(ConcAuthSamples, ConcUpdateSamples)
    \/ DeleteFrom(ConcAuthSamples)
    \/ SummaryBeginFrom(ConcAuthSamples)
    \/ SummaryFinish
    \/ ExportExcelBeginFrom(ConcAuthSamples)
    \/ ExportExcelFinish
    \/ ExportPdfBeginFrom(ConcAuthSamples)
    \/ ExportPdfFinish

SpecConc == Init /\ [][NextConc]_vars

\* SpecAgg: the aggregation as a function of its input: one user whose
\* transactions are drawn from NumMonths consecutive year-months, starting
\* at 0999-12 so that years on either side of the four-digit boundary occur.
MonthAt(i) == D(999 + ((i + 10) \div 12), ((i + 10) % 12) + 1, 15)
AggPatterns == {"pair", "double"}
AggRow(id, kind, category, amount, i) ==
    [id |-> id, user_id |-> 1, type |-> kind, category |-> category,
     amount |-> F(amount), description |-> Str(<<>>), date |-> MonthAt(i)]
AggRows(i, pattern) ==
    CASE pattern = "pair" ->
            {AggRow(2 * i - 1, "income", "Salary", 300, i),
             AggRow(2 * i, "expense", "Food", 100, i)}
      [] OTHER ->
            {AggRow(2 * i - 1, IF i % 2 = 0 THEN "income" ELSE "expense", "Food", 100, i),
             AggRow(2 * i, IF i % 2 = 0 THEN "income" ELSE "expense", "Rent", 300, i)}

AggMonthSets ==
    {months \in SUBSET (1..NumMonths) :
        \/ Cardinality(months) <= AggSlack
        \/ Cardinality(months) >= NumMonths - AggSlack}

InitAgg ==
    /\ db_uri = "sqlite"
    /\ year_pad \in BOOLEAN
    /\ users = <<"ann@example.com">>
    /\ \E months \in AggMonthSets, pattern \in AggPatterns :
           txs = UNION {AggRows(i, pattern) : i \in months}
    /\ next_id = 2 * NumMonths + 1
    /\ pend = NoReq
    /\ resp = NoResp

NextAgg ==
    \/ SummaryBeginFrom(ConcAuthSamples)
    \/ SummaryFinish
    \/ Deliver

SpecAgg == InitAgg /\ [][NextAgg]_vars

\* SpecTotals: the three read operations over a store that create_transaction
\* has filled with TotalsRows transactions of one user, one a day, of
\* amounts that are no binary fractions.
TotalsRows == 3
TotalsAmounts == {"0.005", "0.015"}
TotalsRow(id, kind, raw) ==
    [NewTransaction(1, [type |-> kind,
                        category |-> IF kind = "income" THEN "Salary" ELSE "Food",
                        amount |-> raw,
                        date |-> D(2024, 1, id)]).row EXCEPT !.id = id]

InitTotals ==
    /\ db_uri = "sqlite"
    /\ year_pad = FALSE
    /\ users = <<"ann@example.com">>
    /\ \E kinds \in [1..TotalsRows -> Kinds], raws \in [1..TotalsRows -> TotalsAmounts] :
           txs = {TotalsRow(i, kinds[i], raws[i]) : i \in 1..TotalsRows}
    /\ next_id = TotalsRows + 1
    /\ pend = NoReq
    /\ resp = NoResp

NextTotals ==
    \/ SummaryBeginFrom(ConcAuthSamples)
    \/ ExportExcelBeginFrom(ConcAuthSamples)
    \/ ExportPdfBeginFrom(ConcAuthSamples)
    \/ SummaryFinish
    \/ ExportExcelFinish
    \/ ExportPdfFinish
    \/ Deliver

SpecTotals == InitTotals /\ [][NextTotals]_vars

\* ------------------------------------------------------------------ claims
\* Sums and roundings stated on sets, apart from the handlers' own loops.
RECURSIVE SumAmounts(_)
SumAmounts(S) ==
    IF S = {} THEN F(0)
    ELSE LET t == CHOOSE x \in S : TRUE
         IN  FAdd(t.amount, SumAmounts(S \ {t}))
OfKind(S, kind) == {t \in S : t.type = kind}
Abs(x) == IF x < 0 THEN -x ELSE x
\* r is x to two decimals: a whole number of hundredths nearest to x, the
\* even one of the two when x lies halfway.
IsRounded2(r, x) ==
    IF x.nan THEN r.nan
    ELSE /\ ~r.nan
         /\ r.v % 8 = 0
         /\ 2 * Abs(r.v - x.v) <= 8
         /\ (2 * Abs(r.v - x.v) = 8 => (r.v \div 8) % 2 = 0)
SummaryAnswered == resp.op = "summary" /\ resp.status = 200

\* C1: the summary's balance is total income minus total expense of the
\* user's transactions (sums of the income-kind and of the expense-kind
\* amounts), reported as the 2-decimal rounding of that unrounded difference;
\* the two totals are reported as the roundings of the two sums.
C1_BalanceIsRoundedDifference ==
    SummaryAnswered =>
        LET income == SumAmounts(OfKind(RowsOf(resp.user), "income"))
            expense == SumAmounts(OfKind(RowsOf(resp.user), "expense"))
        IN  /\ IsRounded2(resp.body.balance, FSub(income, expense))
            /\ IsRounded2(resp.body.total_income, income)
            /\ IsRounded2(resp.body.total_expense, expense)
            /\ resp.body.transaction_count = Cardinality(RowsOf(resp.user))

\* A summary over income and expense whose rounded balance is not the
\* difference of the two rounded totals.
C1_Witness ==
    /\ SummaryAnswered
    /\ OfKind(RowsOf(resp.user), "income") # {}
    /\ OfKind(RowsOf(resp.user), "expense") # {}
    /\ ~resp.body.balance.nan
    /\ resp.body.balance.v # resp.body.total_income.v - resp.body.total_expense.v

RECURSIVE SumValues(_, _)
SumValues(d, keys) ==
    IF keys = {} THEN F(0)
    ELSE LET k == CHOOSE x \in keys : TRUE
         IN  FAdd(d[k], SumValues(d, keys \ {k}))

YearMonth(date) == [y |-> date.y, m |-> date.m]
MonthsOf(S) == {YearMonth(t.date) : t \in S}
InMonth(S, ym) == {t \in S : YearMonth(t.date) = ym}
MonthBefore(a, b) == a.y < b.y \/ (a.y = b.y /\ a.m < b.m)
Min(a, b) == IF a < b THEN a ELSE b
\* The year-months whose key is an entry of the series.
KeptMonths(series, months) ==
    {ym \in months : \E i \in DOMAIN series :
        series[i].month = MonthKeyOf(year_pad, D(ym.y, ym.m, 1))}

\* C3: with n distinct year-months among the user's transactions, the
\* summary's monthly series has min(n, 12) entries, its keys are strictly
\* ascending, and they are the min(n, 12) most recent year-months: no month
\* is kept while a newer one is dropped.
C3_SeriesIsMostRecentMonths ==
    SummaryAnswered =>
        LET months == MonthsOf(RowsOf(resp.user))
            series == resp.body.monthly_summary
            kept == KeptMonths(series, months)
        IN  /\ Len(series) = Min(Cardinality(months), MonthlyLimit)
            /\ \A i \in 1..(Len(series) - 1) : StrLess(series[i].month, series[i + 1].month)
            /\ Cardinality(kept) = Len(series)
            /\ \A a \in kept, b \in months \ kept : ~MonthBefore(a, b)

\* C3 under zero-padded years only (what holds of the code on such platforms).
C3_HoldsWhenPadded == year_pad => C3_SeriesIsMostRecentMonths

C5_StoredAmountPositiveKindValid ==
    \A t \in txs : FGtZero(t.amount) /\ t.type \in Kinds

\* C5 on the engine that refuses NaN (what holds of the code there).
C5_HoldsWhenNaNRefused == ~StoresNaN(db_uri) => C5_StoredAmountPositiveKindValid

Exports == {"export_excel", "export_pdf"}
\* The export handler's body ran (the token check let the request in).
ExportHandled == resp.op \in Exports /\ resp.status # 401
DocRows == IF resp.op = "export_excel" THEN resp.body.transactions ELSE resp.body.rows

\* C6: in the PDF export the Description cell of every transaction is the
\* first 30 characters followed by "..." when the description is longer than
\* 30 characters, the description itself when it has at most 30, and the
\* empty string when the stored description is null; the export succeeds in
\* all three cases.
C6_PdfDescriptionCell ==
    (resp.op = "export_pdf" /\ ExportHandled) =>
        /\ resp.status = 200
        /\ \A i \in DOMAIN resp.input :
               LET desc == resp.input[i].description
                   cell == resp.body.rows[i].Description
               IN  IF desc.none THEN cell = <<>>
                   ELSE IF Len(desc.s) > DescLimit
                   THEN cell = SubSeq(desc.s, 1, DescLimit) \o Ellipsis
                   ELSE cell = desc.s

\* C6 for the exports that produce a document (the part that holds).
C6_HoldsForProducedDocuments ==
    (resp.op = "export_pdf" /\ resp.status = 200) => C6_PdfDescriptionCell

\* C7: an export's document has one data row per transaction of the
\* requesting user, in the retrieved order, latest date first; with no
\* transaction the export succeeds with no data row and zero totals.
C7_ExportRowsMatchTransactions ==
    ExportHandled =>
        LET mine == {t \in txs : t.user_id = resp.user}
            got == resp.input
        IN  /\ resp.status = 200 =>
                   /\ Len(DocRows) = Cardinality(mine)
                   /\ Len(got) = Len(DocRows)
                   /\ Range(got) = mine
                   /\ \A i \in DOMAIN got :
                          /\ DocRows[i].Date = DayKeyOf(year_pad, got[i].date)
                          /\ DocRows[i].Category = got[i].category
                          /\ DocRows[i].Type = Capitalize(got[i].type)
                   /\ \A i, j \in DOMAIN got : i < j => ~DateLess(got[i].date, got[j].date)
            /\ mine = {} =>
                   /\ resp.status = 200
                   /\ DocRows = <<>>
                   /\ resp.op = "export_excel" =>
                          resp.body.summary.Value = <<F(0), F(0), F(0)>>
                   /\ resp.op = "export_pdf" =>
                          /\ resp.body.summary.total_income.shown = F(0)
                          /\ resp.body.summary.total_expense.shown = F(0)
                          /\ resp.body.summary.balance.shown = F(0)

\* A PDF of two transactions of different dates.
C7_Witness ==
    /\ resp.op = "export_pdf"
    /\ resp.status = 200
    /\ Len(resp.body.rows) = 2
    /\ resp.body.rows[1].Date # resp.body.rows[2].Date

\* An export for a user without transactions.
C7_WitnessEmpty ==
    /\ ExportHandled
    /\ resp.status = 200
    /\ DocRows = <<>>

Owned(user) == {t \in txs : t.user_id = user}
OthersOf(user) == {t \in txs : t.user_id # user}

\* What a response to user A shows or was computed from is A's transactions
\* and no other; a get, update or delete by A of an id that another user
\* owns is answered 404.
C8_AnswersFromOwnRows ==
    /\ (resp.op = "list" /\ resp.status = 200) =>
           /\ Range(resp.body) = Owned(resp.user)
           /\ Len(resp.body) = Cardinality(Owned(resp.user))
    /\ (resp.op = "summary" /\ resp.status = 200) =>
           /\ Range(resp.input) = Owned(resp.user)
           /\ resp.body.transaction_count = Cardinality(Owned(resp.user))
    /\ ExportHandled =>
           /\ Range(resp.input) = Owned(resp.user)
           /\ resp.status = 200 => Len(DocRows) = Cardinality(Owned(resp.user))
    /\ (resp.op = "get" /\ resp.status = 200) =>
           /\ resp.body.user_id = resp.user
           /\ resp.body.id = resp.target
    /\ (resp.op \in {"get", "update", "delete"} /\ resp.status # 401) =>
           ((\E t \in OthersOf(resp.user) : t.id = resp.target) => resp.status = 404)

\* A request of user A leaves the transactions of every other user as they
\* were.
C8_LeavesOthersUnchanged ==
    (resp.op = "none" /\ resp'.op # "none") =>
        \A t \in txs : t.user_id # resp'.user => t \in txs'

\* C8: transactions are owned exclusively by their user: summary, list and
\* export results for A come from A's transactions only, and a get, update
\* or delete by A naming a transaction of B is answered not-found and leaves
\* B's transactions unchanged.
C8_OwnedExclusively == []C8_AnswersFromOwnRows /\ [][C8_LeavesOthersUnchanged]_vars

\* A delete by one user of a transaction that another user owns, refused.
C8_Witness ==
    /\ resp.op = "delete"
    /\ resp.status = 404
    /\ \E t \in OthersOf(resp.user) : t.id = resp.target

\* The token a request presents names a live, well-signed token of a user in
\* the table.
Authentic(auth) ==
    LET token == IF auth.header.absent THEN auth.cookie ELSE auth.header
    IN  ~token.absent /\ token.sig /\ ~token.expired /\ token.uid \in DOMAIN users
AuthErrors == {"Token is missing", "Invalid token", "Token has expired", "User not found"}

\* C9: an export request without token, with an expired or invalid token, or
\* with a token naming a user that does not exist is answered 401 with an
\* error and no document, and the export handler's body (its query first)
\* never runs for it.
C9_ExportsNeedAuthentication ==
    /\ (resp.op \in Exports /\ ~Authentic(resp.auth)) =>
           /\ resp.status = 401
           /\ resp.body \in AuthErrors
           /\ resp.input = <<>>
    /\ pend.op \in Exports =>
           /\ Authentic(pend.auth)
           /\ pend.user = (IF pend.auth.header.absent THEN pend.auth.cookie
                           ELSE pend.auth.header).uid

\* An export refused for a well-signed, live token of a user not in the table.
C9_Witness ==
    /\ resp.op \in Exports
    /\ resp.status = 401
    /\ resp.auth.header.sig
    /\ ~resp.auth.header.expired
    /\ resp.auth.header.uid \notin DOMAIN users

\* The sum of the amounts a document's rows of one Type show.
RECURSIVE SumShown(_, _, _)
SumShown(rows, kind, pdf) ==
    IF rows = <<>> THEN F(0)
    ELSE LET rest == SumShown(Tail(rows), kind, pdf)
             shown == IF pdf THEN Head(rows).Amount.shown ELSE Head(rows).Amount
         IN  IF Head(rows).Type = kind THEN FAdd(shown, rest) ELSE rest

\* C10 as claimed: the totals a document reports equal the sums over the
\* rows of that same document.
C10_TotalsEqualSumsOverRows ==
    /\ (resp.op = "export_excel" /\ resp.status = 200) =>
           /\ resp.body.summary.Value[1] = SumShown(DocRows, "Income", FALSE)
           /\ resp.body.summary.Value[2] = SumShown(DocRows, "Expense", FALSE)
    /\ (resp.op = "export_pdf" /\ resp.status = 200) =>
           /\ resp.body.summary.total_income.shown = SumShown(DocRows, "Income", TRUE)
           /\ resp.body.summary.total_expense.shown = SumShown(DocRows, "Expense", TRUE)

\* Rows and totals of one answer come from the one list the handler
\* retrieved: a document's rows render that list's transactions one by one,
\* and its totals (the summary's totals, breakdown and series too) are the
\* sums of that list's unrounded amounts, rounded where the answer shows two
\* decimals.
C10_AnswerFromOneList ==
    LET got == Range(resp.input)
        income == SumAmounts(OfKind(got, "income"))
        expense == SumAmounts(OfKind(got, "expense"))
    IN  /\ (resp.op = "export_excel" /\ resp.status = 200) =>
               /\ Len(DocRows) = Len(resp.input)
               /\ \A i \in DOMAIN DocRows : DocRows[i].Amount = resp.input[i].amount
               /\ resp.body.summary.Value = <<income, expense, FSub(income, expense)>>
        /\ (resp.op = "export_pdf" /\ resp.status = 200) =>
               /\ Len(DocRows) = Len(resp.input)
               /\ \A i \in DOMAIN DocRows :
                      IsRounded2(DocRows[i].Amount.shown, resp.input[i].amount)
               /\ IsRounded2(resp.body.summary.total_income.shown, income)
               /\ IsRounded2(resp.body.summary.total_expense.shown, expense)
               /\ IsRounded2(resp.body.summary.balance.shown, FSub(income, expense))
        /\ SummaryAnswered =>
               /\ IsRounded2(resp.body.total_income, income)
               /\ IsRounded2(resp.body.total_expense, expense)
               /\ IsRounded2(resp.body.balance, FSub(income, expense))
               /\ resp.body.transaction_count = Len(resp.input)
               /\ SumValues(resp.body.category_spending,
                            DOMAIN resp.body.category_spending) = expense
               /\ LET series == resp.body.monthly_summary
                  IN  /\ SumValues([i \in DOMAIN series |-> series[i].income],
                                   DOMAIN series) = income
                      /\ SumValues([i \in DOMAIN series |-> series[i].expense],
                                   DOMAIN series) = expense

\* The list is one state of the store: what the query found when it ran,
\* kept until the answer, whatever commits in between.
C10_OneRetrieval ==
    /\ (pend.op = "none" /\ pend'.op # "none") =>
           /\ Range(pend'.rows) = Owned(pend'.user)
           /\ Len(pend'.rows) = Cardinality(Owned(pend'.user))
    /\ (pend.op # "none" /\ pend'.op # "none") => pend' = pend
    /\ (pend.op # "none" /\ pend'.op = "none") =>
           /\ resp'.op = pend.op
           /\ resp'.input = pend.rows

\* C10 (amended): every export or summary answer is computed from one
\* retrieval, so with writes committing meanwhile its rows and totals still
\* reflect one store state: the totals are the sums of the unrounded amounts
\* of the transactions its rows render (in the PDF both are shown rounded to
\* two decimals, each on its own).
C10_SnapshotConsistent == []C10_AnswerFromOneList /\ [][C10_OneRetrieval]_vars

\* An export answered from a list that the store no longer holds: a write
\* committed between the query and the answer.
C10_Witness ==
    /\ resp.op \in Exports
    /\ resp.status = 200
    /\ resp.input # <<>>
    /\ Range(resp.input) # Owned(resp.user)

\* C11: the spreadsheet's Summary sheet has the three rows Total Income,
\* Total Expense and Balance, in that order and no other, and its values
\* equal, before rounding, the totals the PDF summary block and the summary
\* operation compute for the same transaction set (the PDF's query and the
\* spreadsheet's are the same; the summary's rows come in the engine's
\* order).
C11_SheetEqualsOtherTotals ==
    (resp.op = "export_excel" /\ resp.status = 200) =>
        LET sheet == resp.body.summary
            pdfRows == resp.input
        IN  /\ sheet.Metric = <<"Total Income", "Total Expense", "Balance">>
            /\ Len(sheet.Value) = 3
            /\ sheet.Value = <<TotalOf(pdfRows, "income"), TotalOf(pdfRows, "expense"),
                               Balance(pdfRows)>>
            /\ \A asc \in BOOLEAN :
                   LET sumRows == RowsById(Range(resp.input), asc)
                   IN  sheet.Value = <<TotalOf(sumRows, "income"),
                                       TotalOf(sumRows, "expense"),
                                       Balance(sumRows)>>

\* The same seen from outside: the sheet's values, rounded to two decimals,
\* are the totals the summary operation reports for the same set.
C11_ShownTotalsAgree ==
    (resp.op = "export_excel" /\ resp.status = 200) =>
        \A asc \in BOOLEAN :
            LET report == SummaryReport(year_pad, RowsById(Range(resp.input), asc))
            IN  /\ Round2(resp.body.summary.Value[1]) = report.total_income
                /\ Round2(resp.body.summary.Value[2]) = report.total_expense
                /\ Round2(resp.body.summary.Value[3]) = report.balance

\* Where the sums are exact (amounts that are binary fractions) the sheet,
\* the PDF block and the summary agree.
C11_HoldsForExactAmounts ==
    (resp.op = "export_excel" /\ resp.status = 200
         /\ \A i \in DOMAIN resp.input : resp.input[i].amount.e = 0) =>
        /\ C11_SheetEqualsOtherTotals
        /\ C11_ShownTotalsAgree

\* The report a summary call by this user would get from the store as it is
\* now, the engine returning the rows in either order.
SummaryNow(user, asc) == SummaryReport(year_pad, RowsById(Owned(user), asc))

\* A delivered report is the one a further call gets.  With no write since
\* the query the store still holds exactly the rows the report was computed
\* from, the same query returns them in the same order, and the report is
\* the aggregate of that list: asking again returns the same totals,
\* breakdown, series and count.  Where the sums are exact the order of the
\* rows does not matter either.
C12_SameReportAgain ==
    SummaryAnswered =>
        /\ Range(resp.input) = Owned(resp.user)
        /\ Len(resp.input) = Cardinality(Owned(resp.user))
        /\ resp.body = SummaryReport(year_pad, resp.input)
        /\ (\A t \in Owned(resp.user) : t.amount.e = 0) =>
               \A asc \in BOOLEAN : resp.body = SummaryNow(resp.user, asc)

\* No step of a summary call (its token check and query, its aggregation
\* and answer) changes a stored transaction or user.
C12_SummaryWritesNothing ==
    ((pend.op = "none" /\ pend'.op = "summary")
         \/ (resp.op = "none" /\ resp'.op = "summary")) =>
        UNCHANGED <<users, txs, next_id, db_uri>>

\* C12: the aggregator has no side effects and is deterministic: a summary
\* call leaves every stored transaction and user unchanged, and two summary
\* calls of one user with no write in between return identical reports.
C12_SummaryPureAndDeterministic ==
    []C12_SameReportAgain /\ [][C12_SummaryWritesNothing]_vars

\* A report over a store that holds an income and an expense of the user.
C12_Witness ==
    /\ SummaryAnswered
    /\ OfKind(Owned(resp.user), "income") # {}
    /\ OfKind(Owned(resp.user), "expense") # {}
    /\ resp.body.transaction_count = Cardinality(Owned(resp.user))

\* A rejected update: 400 or 404 from update_transaction's own checks.
UpdateRejected == resp.op = "update" /\ resp.status \in {400, 404} /\ resp.input # <<>>

\* C13: an update request answered 400 (invalid kind, non-positive or
\* unparsable amount, invalid date) or 404 (unknown or foreign transaction)
\* leaves every stored transaction as it was, fields of the same request
\* that were valid and came before the failing one included.
C13_RejectedUpdateChangesNothing ==
    (resp.op = "none" /\ resp'.op = "update" /\ resp'.status \in {400, 404}) =>
        UNCHANGED <<txs, next_id>>

C13_RejectedUpdateKeepsRow == [][C13_RejectedUpdateChangesNothing]_vars

\* An update answered 400 whose request carried, before the failing field,
\* a valid field with a value the stored transaction does not have.
C13_Witness ==
    /\ UpdateRejected
    /\ resp.status = 400
    /\ \E t \in Owned(resp.user) :
           LET data == resp.input[1]
           IN  /\ t.id = resp.target
               /\ "type" \in DOMAIN data
               /\ data.type \in Kinds
               /\ data.type # t.type
               /\ UpdatedObject(t, data).error = resp.body
               /\ UpdatedObject(t, data).obj.type = data.type

====
